---- MODULE Spec2Model ----
(***************************************************************************)
(* Microblog: the configuration object (config.py), the Flask application  *)
(* instance (app/__init__.py), the index view bound to "/" and "/index"    *)
(* (app/routes.py) and the Alembic migration ece9164d0908 that adds        *)
(* about_me and last_seen to the user table.                               *)
(*                                                                         *)
(* The web process and the migration tool are two independent programs:    *)
(* the process is started and stopped, inherits the launching environment  *)
(* at start and serves requests; the migration runs statement by statement *)
(* against the database schema and the stored current revision.            *)
(***************************************************************************)
EXTENDS Integers, Sequences, FiniteSets, TLC

VARIABLES
    shellEnv,     \* the environment the next process start inherits
    proc,         \* "stopped" | "running"
    environ,      \* os.environ of the running process (<<>> when stopped)
    urandom,      \* bytes this process has read from the OS entropy source
    Config,       \* attributes of class Config (<<>> before config.py is imported)
    app_config,   \* app.config (<<>> before app/__init__.py has run)
    served,       \* path -> the last response the running process gave for it
    prior,        \* what the previous process run had started with
    db,           \* table name -> sequence of column definitions
    version,      \* the migration tool's stored current revision
    mig,          \* the migration function being run, statements completed,
                  \* and db as it was when the run began
    last,         \* outcome of the most recent migration run
    prev          \* outcome of the run before that

vars == <<shellEnv, proc, environ, urandom, Config, app_config, served, prior,
          db, version, mig, last, prev>>

procVars == <<proc, environ, urandom, Config, app_config, served, prior>>
migVars == <<db, version, mig, last, prev>>

(***************************************************************************)
(* Bounds                                                                  *)
(***************************************************************************)
\* entropy outcomes 0..MaxSeed stand for what os.urandom can return
MaxSeed == 2

(***************************************************************************)
(* Python values: None and str                                             *)
(***************************************************************************)
None == [t |-> "None"]
PyStr(s) == [t |-> "str", v |-> s]

\* bool(x): None and the empty string are false
Truthy(x) == x.t = "str" /\ x.v # ""

\* a or b
PyOrNotNone(a, b) == IF a.t # "None" THEN a ELSE b
PyOr(a, b) == IF Truthy(a) THEN a ELSE b

\* os.environ.get(key): the value, or None when the variable is not set
environ_get(env, key) == IF key \in DOMAIN env THEN PyStr(env[key]) ELSE None

(***************************************************************************)
(* secrets.token_hex                                                       *)
(***************************************************************************)
HexDigits == <<"0", "1", "2", "3", "4", "5", "6", "7",
               "8", "9", "a", "b", "c", "d", "e", "f">>

\* one byte as two hexadecimal digits, high nibble first, zero-padded
HexByte(b) == HexDigits[(b \div 16) + 1] \o HexDigits[(b % 16) + 1]

RECURSIVE hexlify(_)
hexlify(bytes) ==
    IF bytes = <<>> THEN "" ELSE HexByte(Head(bytes)) \o hexlify(Tail(bytes))

\* token_bytes(nbytes): nbytes bytes from the OS entropy source; seed stands
\* for the outcome of the draw (0 gives all 0x00, 1 starts with 0xff, 0x00, 0x01)
token_bytes(nbytes, seed) == [i \in 1..nbytes |-> (seed * (i + 254)) % 256]

token_hex(nbytes, seed) == hexlify(token_bytes(nbytes, seed))

(***************************************************************************)
(* config.py and app/__init__.py                                           *)
(***************************************************************************)
TokenBytes == 32

\* the body of class Config, evaluated once when config.py is imported
ConfigIgnoresEnv(env, seed) ==
    [SECRET_KEY |-> PyStr(token_hex(TokenBytes, seed))]
ConfigFixedFallback(env, seed) ==
    [SECRET_KEY |-> PyOr(environ_get(env, "SECRET_KEY"),
                         PyStr(token_hex(TokenBytes, 0)))]
ConfigClass(env, seed) ==
    [SECRET_KEY |-> PyOr(environ_get(env, "SECRET_KEY"),
                         PyStr(token_hex(TokenBytes, seed)))]

\* the right operand of `or` is evaluated only when the left one is false
EntropyRead(env, seed) ==
    IF Truthy(environ_get(env, "SECRET_KEY")) THEN <<>>
    ELSE token_bytes(TokenBytes, seed)

UpperChars == {"A", "B", "C", "D", "E", "F", "G", "H", "I", "J", "K", "L", "M",
               "N", "O", "P", "Q", "R", "S", "T", "U", "V", "W", "X", "Y", "Z",
               "_", "0", "1", "2", "3", "4", "5", "6", "7", "8", "9"}
isupper(s) == \A i \in 1..Len(s) : SubSeq(s, i, i) \in UpperChars

\* app.config.from_object(obj): copies the upper-case attributes of obj
from_object(obj) ==
    [k \in {a \in DOMAIN obj : isupper(a)} |-> obj[k]]

(***************************************************************************)
(* app/routes.py                                                           *)
(***************************************************************************)
\* strings are kept in ASCII: a character outside it is written as its code
\* point, so the e-acute of the username is \u00e9
userOther == [username |-> "Jose A."]
user == [username |-> "Jos\\u00e9 A."]

index ==
    "\n<html>\n    <head>\n        <title>Home Page - Microblog</title>\n"
    \o "    </head>\n    <body>\n        <h1>Hello, "
    \o user.username
    \o "!</h1>\n    </body>\n</html>"

\* @app.route('/') and @app.route('/index'): rule -> endpoint
url_map == [p \in {"/", "/index"} |-> "index"]

view_functions == [e \in {"index"} |-> index]

\* a route registered without methods= accepts GET (and HEAD, OPTIONS)
Methods == {"GET", "POST"}
Paths == {"/", "/index", "/about"}

\* what the application answers to one request
dispatch_request(method, path) ==
    IF path \notin DOMAIN url_map
    THEN [request |-> [method |-> method, path |-> path], status |-> 404,
          endpoint |-> "", content_type |-> "text/html", body |-> "Not Found"]
    ELSE IF method # "GET"
    THEN [request |-> [method |-> method, path |-> path], status |-> 405,
          endpoint |-> url_map[path], content_type |-> "text/html",
          body |-> "Method Not Allowed"]
    ELSE [request |-> [method |-> method, path |-> path], status |-> 200,
          endpoint |-> url_map[path], content_type |-> "text/html",
          body |-> view_functions[url_map[path]]]

Contains(s, sub) ==
    \E i \in 1..(Len(s) - Len(sub) + 1) : SubSeq(s, i, i + Len(sub) - 1) = sub

(***************************************************************************)
(* The web process                                                         *)
(***************************************************************************)
EnvValues == {"", "abc123"}
Environments ==
    {<<>>} \cup {[k \in {"SECRET_KEY"} |-> v] : v \in EnvValues}

NeverRan == [ran |-> FALSE, environ |-> <<>>, urandom |-> <<>>, key |-> None]

SetEnv ==
    /\ \E e \in Environments : e # shellEnv /\ shellEnv' = e
    /\ UNCHANGED <<procVars, migVars>>

\* python imports app: config.py runs, then app/__init__.py
Start ==
    /\ proc = "stopped"
    /\ \E seed \in 0..MaxSeed :
          /\ Config' = ConfigClass(shellEnv, seed)
          /\ urandom' = EntropyRead(shellEnv, seed)
    /\ proc' = "running"
    /\ environ' = shellEnv
    /\ app_config' = from_object(Config')
    /\ served' = <<>>
    /\ UNCHANGED <<shellEnv, prior, migVars>>

RequestRekey ==
    /\ proc = "running"
    /\ \E m \in Methods, p \in Paths :
          served' = [q \in DOMAIN served \cup {p} |->
                        IF q = p THEN dispatch_request(m, p) ELSE served[q]]
    /\ app_config' = [app_config EXCEPT !["SECRET_KEY"] = PyStr(index)]
    /\ UNCHANGED <<shellEnv, proc, environ, urandom, Config, prior, migVars>>

Request ==
    /\ proc = "running"
    /\ \E m \in Methods, p \in Paths :
          served' = [q \in DOMAIN served \cup {p} |->
                        IF q = p THEN dispatch_request(m, p) ELSE served[q]]
    /\ UNCHANGED <<shellEnv, proc, environ, urandom, Config, app_config, prior,
                   migVars>>

Stop ==
    /\ proc = "running"
    /\ proc' = "stopped"
    /\ environ' = <<>>
    /\ urandom' = <<>>
    /\ Config' = <<>>
    /\ app_config' = <<>>
    /\ served' = <<>>
    /\ prior' = [ran |-> TRUE, environ |-> environ, urandom |-> urandom,
                 key |-> Config.SECRET_KEY]
    /\ UNCHANGED <<shellEnv, migVars>>

(***************************************************************************)
(* migrations/versions/ece9164d0908_new_fields_in_user_model.py            *)
(***************************************************************************)
revision == "ece9164d0908"
down_revision == "41cf27f62f9a"
branch_labels == None
depends_on == None

sa_Integer == [kind |-> "Integer"]
sa_String(length) == [kind |-> "String", length |-> length]
sa_DateTime == [kind |-> "DateTime"]
sa_Column(name, type, nullable) ==
    [name |-> name, type |-> type, nullable |-> nullable]

HasTable(d, table) == table \in DOMAIN d
ColumnsNamed(d, table, name) ==
    {i \in 1..Len(d[table]) : d[table][i].name = name}
HasColumn(d, table, name) == ColumnsNamed(d, table, name) # {}

\* op.add_column(table, column): ALTER TABLE table ADD COLUMN column
op_add_column_unchecked(d, table, column) ==
    [ok |-> TRUE, err |-> "",
     db |-> [d EXCEPT ![table] = Append(d[table], column)]]
op_add_column(d, table, column) ==
    IF ~HasTable(d, table)
    THEN [ok |-> FALSE, err |-> "no such table", db |-> d]
    ELSE IF HasColumn(d, table, column.name)
    THEN [ok |-> FALSE, err |-> "duplicate column", db |-> d]
    ELSE [ok |-> TRUE, err |-> "",
          db |-> [d EXCEPT ![table] = Append(d[table], column)]]

\* op.drop_column(table, name): ALTER TABLE table DROP COLUMN name
op_drop_column(d, table, name) ==
    IF ~HasTable(d, table)
    THEN [ok |-> FALSE, err |-> "no such table", db |-> d]
    ELSE IF ~HasColumn(d, table, name)
    THEN [ok |-> FALSE, err |-> "no such column", db |-> d]
    ELSE [ok |-> TRUE, err |-> "",
          db |-> [d EXCEPT ![table] =
                     SelectSeq(d[table], LAMBDA c : c.name # name)]]

AboutMeLength == 140

\* the statements of upgrade(), in program order
upgradeNotNull ==
    << [op |-> "add_column", table |-> "user",
        column |-> sa_Column("about_me", sa_String(AboutMeLength), FALSE)],
       [op |-> "add_column", table |-> "user",
        column |-> sa_Column("last_seen", sa_DateTime, TRUE)] >>
upgradeOnlyAboutMe ==
    << [op |-> "add_column", table |-> "user",
        column |-> sa_Column("about_me", sa_String(AboutMeLength), TRUE)] >>
upgrade ==
    << [op |-> "add_column", table |-> "user",
        column |-> sa_Column("about_me", sa_String(AboutMeLength), TRUE)],
       [op |-> "add_column", table |-> "user",
        column |-> sa_Column("last_seen", sa_DateTime, TRUE)] >>

\* the statements of downgrade(), in program order
downgradeKeepsAboutMe ==
    << [op |-> "drop_column", table |-> "user", name |-> "last_seen"] >>
downgradeSameOrder ==
    << [op |-> "drop_column", table |-> "user", name |-> "about_me"],
       [op |-> "drop_column", table |-> "user", name |-> "last_seen"] >>
downgrade ==
    << [op |-> "drop_column", table |-> "user", name |-> "last_seen"],
       [op |-> "drop_column", table |-> "user", name |-> "about_me"] >>

Script(fn) == IF fn = "upgrade" THEN upgrade ELSE downgrade

execute(d, stmt) ==
    IF stmt.op = "add_column"
    THEN op_add_column(d, stmt.table, stmt.column)
    ELSE op_drop_column(d, stmt.table, stmt.name)

(***************************************************************************)
(* The migration tool running the script                                   *)
(***************************************************************************)
Idle == [fn |-> "none", pc |-> 0, before |-> <<>>]
NoRun == [fn |-> "none", ok |-> TRUE, stmt |-> 0, err |-> "", before |-> <<>>]

\* user tables the predecessor revision can have left behind
BaseSchemas ==
    { << sa_Column("id", sa_Integer, FALSE) >>,
      << sa_Column("id", sa_Integer, FALSE),
         sa_Column("username", sa_String(64), TRUE),
         sa_Column("email", sa_String(120), TRUE),
         sa_Column("password_hash", sa_String(128), TRUE) >> }

\* the tool applies upgrade() when the database is at down_revision
RunUpgrade ==
    /\ mig.fn = "none"
    /\ version = down_revision
    /\ mig' = [fn |-> "upgrade", pc |-> 0, before |-> db]
    /\ UNCHANGED <<shellEnv, procVars, db, version, last, prev>>

\* the tool applies downgrade() when the database is at revision
RunDowngrade ==
    /\ mig.fn = "none"
    /\ version = revision
    /\ mig' = [fn |-> "downgrade", pc |-> 0, before |-> db]
    /\ UNCHANGED <<shellEnv, procVars, db, version, last, prev>>

\* the next statement of the running function: it changes the schema, or it
\* raises and the exception leaves the function (nothing in it catches)
Statement ==
    /\ mig.fn # "none"
    /\ mig.pc < Len(Script(mig.fn))
    /\ LET r == execute(db, Script(mig.fn)[mig.pc + 1]) IN
          IF r.ok
          THEN /\ db' = r.db
               /\ mig' = [mig EXCEPT !.pc = mig.pc + 1]
               /\ UNCHANGED <<last, prev>>
          ELSE /\ db' = r.db
               /\ mig' = Idle
               /\ prev' = last
               /\ last' = [fn |-> mig.fn, ok |-> FALSE, stmt |-> mig.pc + 1,
                           err |-> r.err, before |-> mig.before]
    /\ UNCHANGED <<shellEnv, procVars, version>>

\* the function returned: the tool moves the stored revision along the chain
Return ==
    /\ mig.fn # "none"
    /\ mig.pc = Len(Script(mig.fn))
    /\ version' = IF mig.fn = "upgrade" THEN revision ELSE down_revision
    /\ mig' = Idle
    /\ prev' = last
    /\ last' = [fn |-> mig.fn, ok |-> TRUE, stmt |-> mig.pc, err |-> "",
                before |-> mig.before]
    /\ UNCHANGED <<shellEnv, procVars, db>>

\* `stamp`: the stored revision is set without running any script
Stamp ==
    /\ mig.fn = "none"
    /\ \E r \in {revision, down_revision} : r # version /\ version' = r
    /\ UNCHANGED <<shellEnv, procVars, db, mig, last, prev>>

(***************************************************************************)
(* Specifications                                                          *)
(***************************************************************************)
Init ==
    /\ shellEnv \in Environments
    /\ proc = "stopped"
    /\ environ = <<>>
    /\ urandom = <<>>
    /\ Config = <<>>
    /\ app_config = <<>>
    /\ served = <<>>
    /\ prior = NeverRan
    /\ db \in {[t \in {"user"} |-> cols] : cols \in BaseSchemas}
    /\ version = down_revision
    /\ mig = Idle
    /\ last = NoRun
    /\ prev = NoRun

Next ==
    \/ SetEnv
    \/ Start
    \/ Request
    \/ Stop
    \/ RunUpgrade
    \/ RunDowngrade
    \/ Statement
    \/ Return

Spec == Init /\ [][Next]_vars

\* the migration tool alone, when the stored revision can also be stamped by
\* hand, so that a function can be run against a schema it was not written for
NextStamp ==
    \/ RunUpgrade
    \/ RunDowngrade
    \/ Statement
    \/ Return
    \/ Stamp

SpecStamp == Init /\ [][NextStamp]_vars

(***************************************************************************)
(* Properties                                                              *)
(***************************************************************************)
Routed == {"/", "/index"}
GotByGET(p) == p \in DOMAIN served /\ served[p].request.method = "GET"

\* C1: every GET to "/" or "/index" is answered 200 by the index view with a
\* body containing the username (J, o, s, e-acute, space, A, full stop), and the two paths give the same body.
C1_IndexServesBothPaths ==
    /\ \A p \in Routed :
          GotByGET(p) =>
             /\ served[p].status = 200
             /\ served[p].endpoint = "index"
             /\ Contains(served[p].body, "Jos\\u00e9 A.")
    /\ \A p, q \in Routed :
          GotByGET(p) /\ GotByGET(q) =>
             /\ served[p].body = served[q].body
             /\ served[p].endpoint = served[q].endpoint

C1_Witness == GotByGET("/") /\ GotByGET("/index")

EnvKeySet == proc = "running" /\ Truthy(environ_get(environ, "SECRET_KEY"))
EnvKeyMissing == proc = "running" /\ ~Truthy(environ_get(environ, "SECRET_KEY"))

\* C2: started with SECRET_KEY set to a non-empty string v, Config.SECRET_KEY
\* and app.config["SECRET_KEY"] are v, and no random value was drawn.
C2_EnvKeyUsedVerbatim ==
    EnvKeySet =>
       /\ Config.SECRET_KEY = PyStr(environ["SECRET_KEY"])
       /\ app_config["SECRET_KEY"] = PyStr(environ["SECRET_KEY"])
       /\ urandom = <<>>

C2_Witness == EnvKeySet /\ environ["SECRET_KEY"] = "abc123" /\ shellEnv = <<>>

IsHexString(s) ==
    \A i \in 1..Len(s) : \E d \in 1..Len(HexDigits) : SubSeq(s, i, i) = HexDigits[d]

\* C3: started with SECRET_KEY absent or empty, the secret key is the hex
\* encoding of the 32 bytes drawn at this start: a string of 64 hexadecimal
\* digits, never empty and never None.
C3_FallbackIsTokenHex ==
    EnvKeyMissing =>
       /\ Config.SECRET_KEY.t = "str"
       /\ Config.SECRET_KEY.v # ""
       /\ Len(Config.SECRET_KEY.v) = 2 * TokenBytes
       /\ IsHexString(Config.SECRET_KEY.v)
       /\ Len(urandom) = TokenBytes
       /\ \A i \in 1..TokenBytes :
             /\ SubSeq(Config.SECRET_KEY.v, 2 * i - 1, 2 * i - 1)
                   = HexDigits[(urandom[i] \div 16) + 1]
             /\ SubSeq(Config.SECRET_KEY.v, 2 * i, 2 * i)
                   = HexDigits[(urandom[i] % 16) + 1]
       /\ app_config["SECRET_KEY"] = Config.SECRET_KEY

C3_Witness ==
    /\ EnvKeyMissing
    /\ "SECRET_KEY" \in DOMAIN environ
    /\ environ["SECRET_KEY"] = ""
    /\ urandom[1] = 255

\* this run and the one before it both started with SECRET_KEY unset
RestartedUnset ==
    /\ proc = "running"
    /\ prior.ran
    /\ "SECRET_KEY" \notin DOMAIN environ
    /\ "SECRET_KEY" \notin DOMAIN prior.environ

\* C4 as stated: with SECRET_KEY unset, the key after a restart differs from
\* the key before it.
C4_RestartChangesKey ==
    RestartedUnset => Config.SECRET_KEY # prior.key

\* C4 amended: with SECRET_KEY unset, the key after a restart differs from the
\* key before it unless the entropy source returned the same 32 bytes at both
\* starts; nothing of the earlier key is carried over.
C4_RestartChangesKeyUnlessSameDraw ==
    RestartedUnset =>
       (Config.SECRET_KEY = prior.key <=> urandom = prior.urandom)

C4_Witness == RestartedUnset /\ urandom # prior.urandom

\* C8: while the process runs, no step (a request, a change of the launching
\* environment, a migration) changes Config.SECRET_KEY or app.config.
C8_SecretKeyImmutable ==
    [][proc = "running" /\ proc' = "running"
          => Config' = Config /\ app_config' = app_config]_vars

C8_Witness ==
    /\ proc = "running"
    /\ GotByGET("/") /\ GotByGET("/index")
    /\ shellEnv # environ
    /\ app_config["SECRET_KEY"] = Config.SECRET_KEY

AboutMe ==
    [name |-> "about_me", type |-> [kind |-> "String", length |-> 140],
     nullable |-> TRUE]
LastSeen ==
    [name |-> "last_seen", type |-> [kind |-> "DateTime"], nullable |-> TRUE]
Lacks(d, name) == ~HasColumn(d, "user", name)
ColumnSet(d) == {d["user"][i] : i \in 1..Len(d["user"])}
Completed(r, fn) == r.fn = fn /\ r.ok

\* C5: upgrade applied to a user table with neither column leaves a table with
\* both, each once: about_me a nullable String(140), last_seen a nullable
\* DateTime; every column that was there before is still there.
C5_UpgradeAddsBothColumns ==
    (mig.fn = "none" /\ Completed(last, "upgrade")
        /\ Lacks(last.before, "about_me") /\ Lacks(last.before, "last_seen"))
    => /\ \A i \in ColumnsNamed(db, "user", "about_me") : db["user"][i] = AboutMe
       /\ \A i \in ColumnsNamed(db, "user", "last_seen") : db["user"][i] = LastSeen
       /\ Cardinality(ColumnsNamed(db, "user", "about_me")) = 1
       /\ Cardinality(ColumnsNamed(db, "user", "last_seen")) = 1
       /\ ColumnSet(last.before) \subseteq ColumnSet(db)

C5_Witness ==
    /\ mig.fn = "none"
    /\ Completed(last, "upgrade")
    /\ Len(last.before["user"]) = 4
    /\ Lacks(last.before, "about_me")

\* C6: upgrade followed by downgrade, from a user table with neither column,
\* leaves the schema exactly as it was before the upgrade.
C6_UpgradeDowngradeRoundTrip ==
    (mig.fn = "none" /\ Completed(last, "downgrade") /\ Completed(prev, "upgrade")
        /\ Lacks(prev.before, "about_me") /\ Lacks(prev.before, "last_seen"))
    => /\ db = prev.before
       /\ Lacks(db, "about_me")
       /\ Lacks(db, "last_seen")

C6_Witness ==
    /\ mig.fn = "none"
    /\ Completed(last, "downgrade")
    /\ Completed(prev, "upgrade")
    /\ Len(db["user"]) = 4

\* C7: upgrade run again with no downgrade in between fails at its first
\* add_column with a duplicate-column error; the run ends there, and the table
\* is as it was, with one about_me and one last_seen.
C7_SecondUpgradeFails ==
    /\ (mig.fn = "upgrade" /\ Completed(last, "upgrade")) => mig.pc = 0
    /\ (mig.fn = "none" /\ last.fn = "upgrade" /\ Completed(prev, "upgrade"))
       => /\ ~last.ok
          /\ last.stmt = 1
          /\ last.err = "duplicate column"
          /\ db = last.before
          /\ Cardinality(ColumnsNamed(db, "user", "about_me")) = 1
          /\ Cardinality(ColumnsNamed(db, "user", "last_seen")) = 1

C7_Witness ==
    mig.fn = "none" /\ last.fn = "upgrade" /\ Completed(prev, "upgrade")

\* C9: upgrade adds about_me and then last_seen, downgrade drops last_seen and
\* then about_me: between the two statements of either, about_me is there and
\* last_seen is not, and last_seen is never there without about_me.
C9_ReverseOrder ==
    /\ ~Lacks(db, "last_seen") => ~Lacks(db, "about_me")
    /\ (mig.fn # "none" /\ mig.pc = 1)
       => ~Lacks(db, "about_me") /\ Lacks(db, "last_seen")

C9_Witness == mig.fn = "downgrade" /\ mig.pc = 1

\* C10: the script is the link 41cf27f62f9a -> ece9164d0908 with no branch
\* labels or dependencies, and between runs the user table has both columns
\* when the stored revision is ece9164d0908 and neither otherwise.
C10_RevisionTracksSchema ==
    /\ revision = "ece9164d0908"
    /\ down_revision = "41cf27f62f9a"
    /\ branch_labels = None
    /\ depends_on = None
    /\ version \in {revision, down_revision}
    /\ mig.fn = "none" =>
          IF version = revision
          THEN ~Lacks(db, "about_me") /\ ~Lacks(db, "last_seen")
          ELSE Lacks(db, "about_me") /\ Lacks(db, "last_seen")

C10_Witness ==
    /\ mig.fn = "none"
    /\ version = revision
    /\ Completed(last, "upgrade")
    /\ Completed(prev, "downgrade")

====
